---- MODULE Spec2Model ----
(***************************************************************************)
(* Model of the E->F power-Rabi calibration node                           *)
(* (calibrations/15b_Power_Rabi_E_to_F.py) and of the dataset transform    *)
(* fit_raw_data (calibration_utils/cr_correction_phase/analysis.py).       *)
(*                                                                         *)
(* Amplitudes and frequencies are exact rationals [num, den]; a record     *)
(* with den = 0 stands for a non-finite float (inf or nan).  A phase is an *)
(* integer p standing for the angle p * pi / PhiDiv.                       *)
(***************************************************************************)
EXTENDS Integers, Sequences, FiniteSets, TLC

\* ------------------------------------------------------------------ bounds
MaxPolls == 1      \* iterations of the live-plot polling loop
PhiDiv == 2        \* phases are multiples of pi / PhiDiv
MaxPhi == 3        \* fitted phases range over -MaxPhi .. MaxPhi
MaxF == 1          \* fitted frequencies range over -MaxF/2 .. MaxF/2
MaxAvg == 2        \* num_averages ranges over 1 .. MaxAvg
MaxAmps == 2       \* len(amps) ranges over 1 .. MaxAmps
MaxVars == 2       \* data variables of a dataset
MaxNameLen == 2    \* tokens of a variable name

\* ------------------------------------------------------------ rationals
Abs(n) == IF n < 0 THEN -n ELSE n

RECURSIVE GCD(_, _)
GCD(a, b) == IF b = 0 THEN a ELSE GCD(b, a % b)

NonFinite == [num |-> 0, den |-> 0]

IsFinite(x) == x.den # 0

Rat(n, d) ==
    IF d = 0 THEN NonFinite
    ELSE LET g == GCD(Abs(n), Abs(d))
             s == IF d < 0 THEN -1 ELSE 1
         IN  [num |-> (s * n) \div g, den |-> (s * d) \div g]

RatMul(x, y) ==
    IF IsFinite(x) /\ IsFinite(y) THEN Rat(x.num * y.num, x.den * y.den)
    ELSE NonFinite

RatDiv(x, y) ==
    IF IsFinite(x) /\ IsFinite(y) THEN Rat(x.num * y.den, x.den * y.num)
    ELSE NonFinite

\* Comparisons of floats: every comparison with a non-finite value that the
\* script makes (abs(v) < 0.3) is false.
RatLt(x, y) == IsFinite(x) /\ IsFinite(y) /\ x.num * y.den < y.num * x.den

RatAbs(x) == [num |-> Abs(x.num), den |-> x.den]

RatNeg(x) == [num |-> -x.num, den |-> x.den]

Zero == Rat(0, 1)

\* The clamp threshold and the clamp value of the analysis step (300 mV).
AmpLimit == Rat(3, 10)


\* ------------------------------------------------------------------ state
VARIABLES
    \* the calibration script
    pc,             \* the cell of the script that runs next
    simulate,       \* node.parameters.simulate
    qubits,         \* the list of selected qubits
    ops,            \* ops[q]: q.xy.operations, a map from operation name to pulse
    polls,          \* iterations of the live-plot loop so far
    fit,            \* the result of fit_oscillation, per selected qubit
    fit_results,    \* the dict fit_results
    idx,            \* position of the running per-qubit loop in qubits
    results,        \* the keys of node.results
    state_updates,  \* what node.record_state_updates() has recorded
    log,            \* the steps taken so far, in order
    saved,          \* what each node.save() call has persisted
    \* the QUA program power_rabi
    qpc,            \* the statement of the program that runs next
    qi,             \* index of the qubit of the running outer loop
    qn,             \* the QUA variable n (averaging iteration)
    qa,             \* index in amps of the QUA variable a
    n_avg,          \* node.parameters.num_averages
    num_amps,       \* len(amps)
    xy_freq,        \* the transition the xy element is tuned to
    prep,           \* unscaled operation pulses played since the last readout
    scaled,         \* amplitude-scaled pulses played since the last readout
    readouts,       \* number of measurements saved to the streams
    \* fit_raw_data
    fpc,            \* position in fit_raw_data
    ds,             \* the input dataset: a list of named data variables
    ds_fit,         \* the returned dataset: a map from name to value
    fit_params      \* the returned dict of FitParameters

scriptVars == <<pc, simulate, ops, polls, fit, fit_results, idx, results,
                state_updates, log, saved>>
quaVars == <<qpc, qi, qn, qa, n_avg, num_amps, xy_freq, prep, scaled, readouts>>
fitVars == <<fpc, ds, ds_fit, fit_params>>
vars == <<scriptVars, qubits, quaVars, fitVars>>

\* ---------------------------------------------------------- the machine
Qubits == {"q1", "q2"}

\* The selected qubits: a non-empty list without repetition.
QubitLists ==
    {l \in UNION {[1..k -> Qubits] : k \in 1..Cardinality(Qubits)} :
        \A i, j \in DOMAIN l : i # j => l[i] # l[j]}

operation == "x180"

ef_operation_name == "EF_x180"

BaseAmps == {Rat(1, 10), Rat(1, 4)}

\* The operation to play, as loaded from the state file.
BasePulse(amp) ==
    [amplitude |-> amp, alpha |-> -1, anharmonicity |-> -200, length |-> 40,
     axis_angle |-> 0, digital_marker |-> "ON"]

\* Another operation of the same channel.
OtherPulse ==
    [amplitude |-> Rat(1, 20), alpha |-> -1, anharmonicity |-> -200, length |-> 40,
     axis_angle |-> 90, digital_marker |-> "ON"]

\* An EF operation left in the state file by an earlier calibration.
OldEFPulse ==
    [amplitude |-> Rat(1, 5), alpha |-> 0, anharmonicity |-> -180, length |-> 48,
     axis_angle |-> 90, digital_marker |-> "OFF"]

Operations(amp, hasEF) ==
    IF hasEF
    THEN (operation :> BasePulse(amp)) @@ ("x90" :> OtherPulse)
            @@ (ef_operation_name :> OldEFPulse)
    ELSE (operation :> BasePulse(amp)) @@ ("x90" :> OtherPulse)

NoFit == [q \in {} |-> 0]

InitScriptData ==
    /\ simulate \in BOOLEAN
    /\ qubits \in QubitLists
    /\ \E amp \in [Qubits -> BaseAmps], hasEF \in [Qubits -> BOOLEAN] :
          ops = [q \in Qubits |-> Operations(amp[q], hasEF[q])]
    /\ polls = 0
    /\ fit = NoFit
    /\ fit_results = NoFit
    /\ idx = 1
    /\ results = {}
    /\ state_updates = {}
    /\ log = <<>>
    /\ saved = <<>>

Range(s) == {s[i] : i \in DOMAIN s}

Record(step) == Append(log, <<step, "-">>)

RecordFor(step, q) == Append(log, <<step, q>>)

\* What node.save() persists: the machine, the results and the outcomes.
Snapshot(outcomes) == [machine |-> ops, results |-> results, outcomes |-> outcomes]

\* -------------------------------------------------- Simulate_or_execute
Simulate ==
    /\ pc = "start"
    /\ simulate
    /\ results' = {"figure"}
    /\ log' = Record("simulate")
    /\ pc' = "save_simulation"
    /\ UNCHANGED <<simulate, qubits, ops, polls, fit, fit_results, idx,
                   state_updates, saved>>

SaveSimulation ==
    /\ pc = "save_simulation"
    /\ saved' = Append(saved, Snapshot({}))
    /\ log' = Record("save")
    /\ pc' = "done"
    /\ UNCHANGED <<simulate, qubits, ops, polls, fit, fit_results, idx, results,
                   state_updates>>

Execute ==
    /\ pc = "start"
    /\ ~simulate
    /\ log' = Record("execute")
    /\ pc' = "live"
    /\ UNCHANGED <<simulate, qubits, ops, polls, fit, fit_results, idx, results,
                   state_updates, saved>>

\* One iteration of `while results.is_processing()`.
LivePlot ==
    /\ pc = "live"
    /\ polls < MaxPolls
    /\ polls' = polls + 1
    /\ UNCHANGED <<pc, simulate, qubits, ops, fit, fit_results, idx, results,
                   state_updates, log, saved>>

\* results.is_processing() returns False: the job has finished processing.
Processed ==
    /\ pc = "live"
    /\ log' = Record("processed")
    /\ pc' = "fetch"
    /\ polls' = 0
    /\ UNCHANGED <<simulate, qubits, ops, fit, fit_results, idx, results,
                   state_updates, saved>>

Fetch ==
    /\ pc = "fetch"
    /\ results' = {"ds"}
    /\ log' = Record("fetch")
    /\ pc' = "fit"
    /\ UNCHANGED <<simulate, qubits, ops, polls, fit, fit_results, idx,
                   state_updates, saved>>


\* -------------------------------------------------------- Data_analysis
\* What the least-squares fit can return for one qubit: a frequency f and a
\* phase phi (the integer p stands for p * pi / PhiDiv).
FitFreqs == {Rat(k, 2) : k \in -MaxF..MaxF}

FitPhases == -MaxPhi..MaxPhi

FitValues == [f : FitFreqs, phi : FitPhases]

Fit ==
    /\ pc = "fit"
    /\ fit' \in [Range(qubits) -> FitValues]
    /\ fit_results' = NoFit
    /\ log' = Record("fit")
    /\ pc' = "analysis"
    /\ idx' = 1
    /\ UNCHANGED <<simulate, qubits, ops, polls, results, state_updates, saved>>

\* phi_fit - np.pi * (phi_fit > np.pi / 2)
NormalisePhase(p) == IF 2 * p > PhiDiv THEN p - PhiDiv ELSE p

\* float(1.0 * (np.pi - phi_fit) / (2 * np.pi * f_fit))
Factor(p, f) == RatDiv(Rat(PhiDiv - NormalisePhase(p), 2 * PhiDiv), f)

\* q.xy.operations[operation].amplitude * factor
NewPiAmp(q) == RatMul(ops[q][operation].amplitude, Factor(fit[q].phi, fit[q].f))

\* The clamp with the absolute value forgotten.
PiAmplitudeNoAbs(new_pi_amp) ==
    IF RatLt(new_pi_amp, AmpLimit) THEN new_pi_amp ELSE AmpLimit

\* The value stored in fit_results[q]["Pi_amplitude"].
PiAmplitude(new_pi_amp) ==
    IF RatLt(RatAbs(new_pi_amp), AmpLimit) THEN new_pi_amp ELSE AmpLimit

\* One iteration of `for q in qubits` of the analysis; node.results gets
\* fit_results after the last one.
Analyse ==
    /\ pc = "analysis"
    /\ LET q == qubits[idx]
           last == idx = Len(qubits)
       IN  /\ fit_results' = (q :> [Pi_amplitude |-> PiAmplitude(NewPiAmp(q))]) @@ fit_results
           /\ log' = RecordFor("analysis", q)
           /\ idx' = IF last THEN 1 ELSE idx + 1
           /\ pc' = IF last THEN "plot" ELSE "analysis"
           /\ results' = IF last THEN results \cup {"fit_results"} ELSE results
    /\ UNCHANGED <<simulate, qubits, ops, polls, fit, state_updates, saved>>

Plot ==
    /\ pc = "plot"
    /\ results' = results \cup {"figure"}
    /\ log' = Record("plot")
    /\ pc' = "update"
    /\ UNCHANGED <<simulate, qubits, ops, polls, fit, fit_results, idx,
                   state_updates, saved>>

\* --------------------------------------------------------- Update_state
\* pulses.DragCosinePulse(amplitude=..., alpha=..., ...) of the create branch.
DragCosinePulse(q) ==
    [amplitude |-> fit_results[q].Pi_amplitude,
     alpha |-> ops[q][operation].alpha,
     anharmonicity |-> ops[q][operation].anharmonicity,
     length |-> ops[q][operation].length,
     axis_angle |-> 0,
     digital_marker |-> ops[q][operation].digital_marker]

\* The loop body with the else branch forgotten: an existing EF operation
\* keeps its amplitude.
UpdatedOperationsCreateOnly(q) ==
    IF ef_operation_name \notin DOMAIN ops[q]
    THEN (ef_operation_name :> DragCosinePulse(q)) @@ ops[q]
    ELSE ops[q]

\* The loop body creating the EF operation anew in both branches.
UpdatedOperationsRecreate(q) ==
    (ef_operation_name :> DragCosinePulse(q)) @@ ops[q]

\* q.xy.operations after the body of the loop has run for q.
UpdatedOperations(q) ==
    IF ef_operation_name \notin DOMAIN ops[q]
    THEN (ef_operation_name :> DragCosinePulse(q)) @@ ops[q]
    ELSE [ops[q] EXCEPT ![ef_operation_name].amplitude = fit_results[q].Pi_amplitude]

\* What node.record_state_updates() records while the loop body runs for q.
RecordedUpdates(q) ==
    IF ef_operation_name \notin DOMAIN ops[q]
    THEN {}
    ELSE {[qubit |-> q, op |-> ef_operation_name, attr |-> "amplitude",
           old |-> ops[q][ef_operation_name].amplitude,
           new |-> fit_results[q].Pi_amplitude]}

\* One iteration of `for q in qubits` of the state update.
UpdateState ==
    /\ pc = "update"
    /\ LET q == qubits[idx]
           last == idx = Len(qubits)
       IN  /\ ops' = [ops EXCEPT ![q] = UpdatedOperations(q)]
           /\ state_updates' = state_updates \cup RecordedUpdates(q)
           /\ log' = RecordFor("update", q)
           /\ idx' = IF last THEN 1 ELSE idx + 1
           /\ pc' = IF last THEN "save" ELSE "update"
    /\ UNCHANGED <<simulate, qubits, polls, fit, fit_results, results, saved>>

\* --------------------------------------------------------- Save_results
SaveResults ==
    /\ pc = "save"
    /\ results' = results \cup {"initial_parameters"}
    /\ saved' = Append(saved, [machine |-> ops,
                               results |-> results \cup {"initial_parameters"},
                               outcomes |-> Range(qubits)])
    /\ log' = Record("save")
    /\ pc' = "done"
    /\ UNCHANGED <<simulate, qubits, ops, polls, fit, fit_results, idx,
                   state_updates>>


\* ------------------------------------------------ QUA program power_rabi
InitQuaData ==
    /\ n_avg \in 1..MaxAvg
    /\ num_amps \in 1..MaxAmps
    /\ qi = 1
    /\ qn = 0
    /\ qa = 1
    /\ xy_freq = "ge"
    /\ prep = 0
    /\ scaled = 0
    /\ readouts = 0

\* save(n, n_st) at the head of an averaging iteration.
SaveIteration ==
    /\ qpc = "average"
    /\ qpc' = "reset"
    /\ UNCHANGED <<qi, qn, qa, n_avg, num_amps, xy_freq, prep, scaled, readouts>>

\* update_frequency(resonator, ...); update_frequency(xy, intermediate_frequency)
ResetFrequency ==
    /\ qpc = "reset"
    /\ xy_freq' = "ge"
    /\ qpc' = "drive"
    /\ UNCHANGED <<qi, qn, qa, n_avg, num_amps, prep, scaled, readouts>>

\* qubit.xy.play(operation): drive the qubit to the excited state.
PlayGE ==
    /\ qpc = "drive"
    /\ prep' = prep + 1
    /\ qpc' = "tune"
    /\ UNCHANGED <<qi, qn, qa, n_avg, num_amps, xy_freq, scaled, readouts>>

\* update_frequency(xy, intermediate_frequency - anharmonicity)
TuneEF ==
    /\ qpc = "tune"
    /\ xy_freq' = "ef"
    /\ qpc' = "play"
    /\ UNCHANGED <<qi, qn, qa, n_avg, num_amps, prep, scaled, readouts>>

\* qubit.xy.play(operation, amplitude_scale=a)
PlayEF ==
    /\ qpc = "play"
    /\ scaled' = scaled + 1
    /\ qpc' = "measure"
    /\ UNCHANGED <<qi, qn, qa, n_avg, num_amps, xy_freq, prep, readouts>>

\* align(); measure; save I and Q; wait; then the loops advance: the next
\* amplitude, else the next averaging iteration, else (after align()) the
\* next qubit, else the end of the program.
Measure ==
    /\ qpc = "measure"
    /\ readouts' = readouts + 1
    /\ prep' = 0
    /\ scaled' = 0
    /\ IF qa < num_amps
       THEN /\ qa' = qa + 1
            /\ qpc' = "reset"
            /\ UNCHANGED <<qn, qi>>
       ELSE IF qn + 1 < n_avg
       THEN /\ qa' = 1
            /\ qn' = qn + 1
            /\ qpc' = "average"
            /\ UNCHANGED qi
       ELSE IF qi < Len(qubits)
       THEN /\ qa' = 1
            /\ qn' = 0
            /\ qi' = qi + 1
            /\ qpc' = "average"
       ELSE /\ qpc' = "done"
            /\ UNCHANGED <<qa, qn, qi>>
    /\ UNCHANGED <<n_avg, num_amps, xy_freq>>

\* --------------------------------------------------------- fit_raw_data
NameTokens == {"state", "bloch", "I"}

\* A variable name is a sequence of tokens ("state", "c" for "state_c").
VarNames == UNION {[1..k -> NameTokens] : k \in 1..MaxNameLen}

\* The values of a data variable: arrays of state-discriminated shots.
DataArrays == {<<0, 1>>, <<1, 1>>}

DataVars == [name : VarNames, val : DataArrays]

\* A dataset lists its data variables in insertion order, names distinct.
Datasets ==
    {d \in UNION {[1..k -> DataVars] : k \in 0..MaxVars} :
        \A i, j \in DOMAIN d : i # j => d[i].name # d[j].name}

QubitPairs == {"q1-q2"}

NoVars == [n \in {} |-> <<>>]

InitFitData ==
    /\ ds \in Datasets
    /\ ds_fit = NoVars
    /\ fit_params = NoFit

\* "state" in col
ContainsState(name) == \E i \in DOMAIN name : name[i] = "state"

\* col.replace("state", "bloch")
Replace(name) == [i \in DOMAIN name |-> IF name[i] = "state" THEN "bloch" ELSE name[i]]

\* The transform with the sign of the slope lost.
BlochFlipped(x) == [i \in DOMAIN x |-> 2 * x[i] - 1]

\* -2 * ds[col] + 1, element-wise
Bloch(x) == [i \in DOMAIN x |-> -2 * x[i] + 1]

\* The dict comprehension over the first k data variables: a later key
\* replaces an equal earlier one.
RECURSIVE NewVars(_, _)
NewVars(d, k) ==
    IF k = 0 THEN NoVars
    ELSE IF ContainsState(d[k].name)
    THEN (Replace(d[k].name) :> Bloch(d[k].val)) @@ NewVars(d, k - 1)
    ELSE NewVars(d, k - 1)

DataVarsOf(d) == [n \in {d[i].name : i \in DOMAIN d} |->
                    (CHOOSE v \in Range(d) : v.name = n).val]

\* ds.assign(new): the variables of new are added, replacing those of ds
\* that have the same name.
Assign(d, new) == new @@ DataVarsOf(d)

\* _extract_relevant_fit_parameters: the dataset is returned as it is, with
\* one FitParameters(success=True) per qubit pair.
ExtractRelevantFitParameters(fitted) ==
    <<fitted, [qp \in QubitPairs |-> [success |-> TRUE]]>>

\* fit_raw_data(ds, node): the assignment of the 'bloch' variables, then the
\* extraction; what it returns is (ds_fit, fit_params).
FitRawData ==
    /\ fpc = "call"
    /\ LET returned == ExtractRelevantFitParameters(Assign(ds, NewVars(ds, Len(ds))))
       IN  /\ ds_fit' = returned[1]
           /\ fit_params' = returned[2]
    /\ fpc' = "return"
    /\ UNCHANGED ds

\* ------------------------------------------------------- specifications
\* The calibration script, run as a whole.
ScriptIdle ==
    /\ pc = "idle"
    /\ simulate = FALSE
    /\ ops = [q \in Qubits |-> Operations(Rat(1, 10), FALSE)]
    /\ polls = 0
    /\ fit = NoFit
    /\ fit_results = NoFit
    /\ idx = 1
    /\ results = {}
    /\ state_updates = {}
    /\ log = <<>>
    /\ saved = <<>>

QuaIdle ==
    /\ qpc = "idle"
    /\ n_avg = 1
    /\ num_amps = 1
    /\ qi = 1
    /\ qn = 0
    /\ qa = 1
    /\ xy_freq = "ge"
    /\ prep = 0
    /\ scaled = 0
    /\ readouts = 0

FitIdle ==
    /\ fpc = "idle"
    /\ ds = <<>>
    /\ ds_fit = NoVars
    /\ fit_params = NoFit

Init ==
    /\ pc = "start"
    /\ InitScriptData
    /\ QuaIdle
    /\ FitIdle

Next ==
    \/ Simulate /\ UNCHANGED <<quaVars, fitVars>>
    \/ SaveSimulation /\ UNCHANGED <<quaVars, fitVars>>
    \/ Execute /\ UNCHANGED <<quaVars, fitVars>>
    \/ LivePlot /\ UNCHANGED <<quaVars, fitVars>>
    \/ Processed /\ UNCHANGED <<quaVars, fitVars>>
    \/ Fetch /\ UNCHANGED <<quaVars, fitVars>>
    \/ Fit /\ UNCHANGED <<quaVars, fitVars>>
    \/ Analyse /\ UNCHANGED <<quaVars, fitVars>>
    \/ Plot /\ UNCHANGED <<quaVars, fitVars>>
    \/ UpdateState /\ UNCHANGED <<quaVars, fitVars>>
    \/ SaveResults /\ UNCHANGED <<quaVars, fitVars>>

Spec == Init /\ [][Next]_vars

\* The QUA program power_rabi, as the controller runs it.
InitQua ==
    /\ qpc = "average"
    /\ InitQuaData
    /\ qubits \in QubitLists
    /\ ScriptIdle
    /\ FitIdle

NextQua ==
    \/ SaveIteration /\ UNCHANGED <<scriptVars, qubits, fitVars>>
    \/ ResetFrequency /\ UNCHANGED <<scriptVars, qubits, fitVars>>
    \/ PlayGE /\ UNCHANGED <<scriptVars, qubits, fitVars>>
    \/ TuneEF /\ UNCHANGED <<scriptVars, qubits, fitVars>>
    \/ PlayEF /\ UNCHANGED <<scriptVars, qubits, fitVars>>
    \/ Measure /\ UNCHANGED <<scriptVars, qubits, fitVars>>

SpecQua == InitQua /\ [][NextQua]_vars

\* fit_raw_data, applied to a dataset.
InitFit ==
    /\ fpc = "call"
    /\ InitFitData
    /\ qubits = <<"q1">>
    /\ ScriptIdle
    /\ QuaIdle

NextFit ==
    \/ FitRawData /\ UNCHANGED <<scriptVars, qubits, quaVars>>

SpecFit == InitFit /\ [][NextFit]_vars


\* ================================================================ claims
Analysed == DOMAIN fit_results

Updated == {e[2] : e \in {x \in Range(log) : x[1] = "update"}}

RatLe(x, y) == IsFinite(x) /\ IsFinite(y) /\ x.num * y.den <= y.num * x.den

InBounds(v) == RatLt(RatNeg(AmpLimit), v) /\ RatLe(v, AmpLimit)

NegativeOrHighReplaced ==
    \A q \in Analysed :
        LET new == NewPiAmp(q)
            v == fit_results[q].Pi_amplitude
        IN  /\ (RatLt(new, Zero) \/ ~RatLt(new, AmpLimit)) => v = AmpLimit
            /\ ~RatLt(v, Zero)

\* C3: at every readout of the QUA program the amplitude-scaled pulse has
\* been played more than once since the previous readout.
RepeatedPulses == qpc = "measure" => scaled > 1

IsPrefix(s, t) == Len(s) <= Len(t) /\ \A i \in DOMAIN s : s[i] = t[i]

\* The steps the pipeline order speaks of (plotting is not one of them).
Steps == SelectSeq(log, LAMBDA e : e[1] # "plot")

ExpectedRun ==
    <<<<"execute", "-">>, <<"processed", "-">>, <<"fetch", "-">>, <<"fit", "-">>>>
        \o [i \in DOMAIN qubits |-> <<"analysis", qubits[i]>>]
        \o [i \in DOMAIN qubits |-> <<"update", qubits[i]>>]
        \o <<<<"save", "-">>>>

ExpectedSimulation == <<<<"simulate", "-">>, <<"save", "-">>>>

\* C4: node.save() is called once, as the last step; without simulate the
\* steps are execute, processed, fetch, fit, Pi_amplitude of every qubit,
\* update of every qubit, save, and what is saved holds for every selected
\* qubit an EF amplitude equal to its Pi_amplitude; with simulate the save
\* follows the simulation with no fetch, fit or state update.
PipelineOrder ==
    /\ Len(saved) <= 1
    /\ Len(saved) = 1 <=> pc = "done"
    /\ Len(saved) = Cardinality({i \in DOMAIN log : log[i][1] = "save"})
    /\ pc = "done" => log[Len(log)][1] = "save"
    /\ ~simulate =>
          /\ IsPrefix(Steps, ExpectedRun)
          /\ pc = "done" =>
                /\ Steps = ExpectedRun
                /\ \A q \in Range(qubits) :
                      /\ q \in Analysed
                      /\ saved[1].machine[q][ef_operation_name].amplitude
                            = fit_results[q].Pi_amplitude
    /\ simulate =>
          /\ IsPrefix(log, ExpectedSimulation)
          /\ fit = NoFit /\ fit_results = NoFit /\ state_updates = {}
          /\ pc = "done" => log = ExpectedSimulation /\ saved[1].machine = ops

\* A run on two qubits, one of which had an EF operation, has saved.
PipelineOrderWitness ==
    /\ pc = "done"
    /\ ~simulate
    /\ Len(qubits) = 2
    /\ state_updates # {}
    /\ Len(saved) = 1

\* C5: the phase used for the amplitude factor of every analysed qubit lies
\* within [-pi/2, pi/2].
PhaseWithinHalfPi ==
    \A q \in Analysed :
        LET p == NormalisePhase(fit[q].phi)
        IN  -PhiDiv <= 2 * p /\ 2 * p <= PhiDiv

\* C6: a step of the state update for qubit q creates EF_<operation> from
\* the fitted amplitude and the fields of <operation> (axis_angle 0) without
\* recording a state update when it was absent, overwrites only its
\* amplitude and records that when it was present, and leaves every other
\* operation of every qubit as it was.
CreateOrUpdate ==
    [][pc = "update" =>
        LET q == qubits[idx]
            amp == fit_results[q].Pi_amplitude
            base == ops[q][operation]
        IN  /\ ef_operation_name \notin DOMAIN ops[q] =>
                  /\ ops'[q][ef_operation_name] =
                        [amplitude |-> amp, alpha |-> base.alpha,
                         anharmonicity |-> base.anharmonicity,
                         length |-> base.length, axis_angle |-> 0,
                         digital_marker |-> base.digital_marker]
                  /\ state_updates' = state_updates
            /\ ef_operation_name \in DOMAIN ops[q] =>
                  /\ ops'[q][ef_operation_name] =
                        [ops[q][ef_operation_name] EXCEPT !.amplitude = amp]
                  /\ state_updates' = state_updates \cup
                        {[qubit |-> q, op |-> ef_operation_name, attr |-> "amplitude",
                          old |-> ops[q][ef_operation_name].amplitude, new |-> amp]}
            /\ \A r \in Qubits :
                  /\ DOMAIN ops'[r] =
                        DOMAIN ops[r] \cup (IF r = q THEN {ef_operation_name} ELSE {})
                  /\ \A name \in DOMAIN ops[r] :
                        (r # q \/ name # ef_operation_name) => ops'[r][name] = ops[r][name]
    ]_vars

\* The update has created the EF operation of one qubit and overwritten the
\* amplitude of the existing EF operation of another.
CreateOrUpdateWitness ==
    /\ pc = "save"
    /\ \E q1, q2 \in Updated :
          /\ \E u \in state_updates : u.qubit = q1
          /\ ops[q1][ef_operation_name] =
                [OldEFPulse EXCEPT !.amplitude = fit_results[q1].Pi_amplitude]
          /\ \A u \in state_updates : u.qubit # q2
          /\ ops[q2][ef_operation_name].alpha = ops[q2][operation].alpha
          /\ ops[q2][ef_operation_name].axis_angle = 0

InputNames == {ds[i].name : i \in DOMAIN ds}

StateVars == {i \in DOMAIN ds : ContainsState(ds[i].name)}

BlochNames == {Replace(ds[i].name) : i \in StateVars}

\* y is -2x + 1 element-wise: 0 -> 1, 1 -> -1.
IsBlochOf(y, x) ==
    /\ DOMAIN y = DOMAIN x
    /\ \A k \in DOMAIN x :
          /\ x[k] = 0 => y[k] = 1
          /\ x[k] = 1 => y[k] = -1
          /\ y[k] + 2 * x[k] = 1

\* C7 as stated: every 'state' variable has its 'bloch' variable with value
\* -2x + 1 in the result, every input variable is in the result with its
\* value unchanged, and the result has no other variables.
FitRawDataTransform ==
    fpc = "return" =>
        /\ \A i \in StateVars :
              /\ Replace(ds[i].name) \in DOMAIN ds_fit
              /\ IsBlochOf(ds_fit[Replace(ds[i].name)], ds[i].val)
        /\ \A i \in DOMAIN ds :
              /\ ds[i].name \in DOMAIN ds_fit
              /\ ds_fit[ds[i].name] = ds[i].val
        /\ DOMAIN ds_fit = InputNames \cup BlochNames

\* C7 as amended: the result has the input names and the 'bloch' names and
\* no others; each 'bloch' name holds -2x + 1 of the last 'state' variable
\* (in dataset order) renamed to it; every input variable whose name is not
\* a 'bloch' name of some 'state' variable keeps its value.
FitRawDataTransformAmended ==
    fpc = "return" =>
        /\ \A i \in StateVars :
              (\A j \in StateVars : j > i => Replace(ds[j].name) # Replace(ds[i].name))
                  => /\ Replace(ds[i].name) \in DOMAIN ds_fit
                     /\ IsBlochOf(ds_fit[Replace(ds[i].name)], ds[i].val)
        /\ \A i \in DOMAIN ds :
              /\ ds[i].name \in DOMAIN ds_fit
              /\ ds[i].name \notin BlochNames => ds_fit[ds[i].name] = ds[i].val
        /\ DOMAIN ds_fit = InputNames \cup BlochNames

\* A dataset with a 'state' variable and an unrelated one was transformed.
FitRawDataWitness ==
    /\ fpc = "return"
    /\ Len(ds) = 2
    /\ StateVars = {1}
    /\ ds[2].name \notin BlochNames
    /\ Cardinality(DOMAIN ds_fit) = 3

====
